---- MODULE Spec2Model ----
(***************************************************************************)
(* A model of cfdata.py: the address sampler, the probe stage              *)
(* (run_ip_scan) and one call of its worker scan_ip, the latency-test      *)
(* stage (run_detailed_test) and one call of its worker test_ip, the       *)
(* aggregator (analyze_results) and the control flow of main.              *)
(*                                                                         *)
(* Text is modelled as a sequence of one-character strings.  Each          *)
(* component has its own specification over the shared variables; the      *)
(* variables of the other components stay at their idle values.            *)
(***************************************************************************)
EXTENDS Integers, Sequences, FiniteSets, TLC

VARIABLES
    \* get_random_ipv4s
    subnets,        \* the argument ip_list: the CIDR lines
    sampled,        \* how many lines the for loop has consumed
    random_ips,     \* the list being built
    \* analyze_results
    outcomes,       \* the argument results
    total_ips,      \* the argument total_ips
    agg_pc,         \* "call", then "done" or "raised" (ZeroDivisionError)
    histogram,      \* the rows the call has printed
    \* test_ip, one call
    delay,          \* the latency threshold in ms (args.delay)
    trial,          \* how many of the 10 trials have ended
    latency_ms,     \* the last trial: <<>> if it raised, <<n>> if it connected in n ms
    acc,            \* success_count, total_latency, min_latency, max_latency
    tip_pc,         \* "loop", then "returned"
    tip_ret,        \* the return value: <<>> for None, else <<TestResult>>
    \* run_detailed_test
    test_delay,     \* the argument delay
    test_threads,   \* the argument test_threads: the width of the pool
    test_total,     \* total = len(ip_list); address i is the i-th of ip_list
    test_pc,        \* per address: "queued", "running", "finally", "locked",
                    \* "counting", "done"
    test_run,       \* per address: the outcomes of its 10 trials, <<>> before they ran
    test_ret,       \* per address: what test_ip returns, <<>> for None
    test_count,     \* the shared counter count
    test_seen,      \* per address: the value count += 1 has read, 0 outside it
    test_lock,      \* 0 when free, else the address whose worker holds lock
    test_progress,  \* the values of count printed by the progress line
    test_collected, \* how many futures the main thread has consumed
    test_results,   \* the list results
    test_main,      \* where the main thread stands
    test_file,      \* the rows written to the result file
    test_hist,      \* what analyze_results printed
    \* main and run_ip_scan
    main_pc,        \* where the main thread stands
    ip_csv,         \* the file ip.csv: whether it exists, and its data rows
    csv_opened,     \* whether this run has opened ip.csv for writing
    printed,        \* the messages printed so far
    location_map,   \* point-of-presence code -> Location
    scan_threads,   \* the argument scan_max_threads: the width of the pool
    scan_total,     \* total = len(ip_list); candidate i is the i-th of ip_list
    scan_w,         \* per candidate: the position and the locals of scan_ip
    scan_count,     \* the shared counter count
    scan_lock,      \* 0 when free, else the candidate whose worker holds lock
    scan_progress,  \* the values of count printed by the progress line
    scan_collected, \* how many futures the main thread has consumed
    scan_results,   \* the list results
    selected_dc,    \* what select_data_center_from_csv returns: the code
    main_ip_list,   \* and the addresses handed to run_detailed_test
    \* scan_ip, one call
    sip_peer,       \* what the peer sends: the data of each recv, then its end
    sip_locations,  \* location_map
    sip_pc,         \* "connect", "recv", "parse", then "returned"
    sip_tcp_ms,     \* tcp_duration_ms
    sip_reads,      \* how many recv calls have returned data
    sip_response,   \* response
    sip_raised,     \* whether the try block was left by an exception
    sip_ret         \* the return value: <<>> for None, else <<ScanResult>>

samplerVars == <<subnets, sampled, random_ips>>
aggVars == <<outcomes, total_ips, agg_pc, histogram>>
tipVars == <<delay, trial, latency_ms, acc, tip_pc, tip_ret>>
testVars == <<test_delay, test_threads, test_total, test_pc, test_run, test_ret,
              test_count, test_seen, test_lock, test_progress, test_collected,
              test_results, test_main, test_file, test_hist>>
scanVars == <<main_pc, ip_csv, csv_opened, printed, location_map, scan_threads,
              scan_total, scan_w, scan_count, scan_lock, scan_progress,
              scan_collected, scan_results, selected_dc, main_ip_list>>
sipVars == <<sip_peer, sip_locations, sip_pc, sip_tcp_ms, sip_reads,
             sip_response, sip_raised, sip_ret>>
vars == <<samplerVars, aggVars, tipVars, testVars, scanVars, sipVars>>

\* What the actions of one component leave alone
samplerOthers == <<aggVars, tipVars, testVars, scanVars, sipVars>>
aggOthers == <<samplerVars, tipVars, testVars, scanVars, sipVars>>
tipOthers == <<samplerVars, aggVars, testVars, scanVars, sipVars>>
testOthers == <<samplerVars, aggVars, tipVars, scanVars, sipVars>>
scanOthers == <<samplerVars, aggVars, tipVars, testVars, sipVars>>
sipOthers == <<samplerVars, aggVars, tipVars, testVars, scanVars>>

----------------------------------------------------------------------------
(* Bounds of the model *)

MaxBlocks == 3          \* longest CIDR list given to the sampler
MaxOutcomes == 2        \* longest outcome list given to the aggregator alone
MaxMissing == 2         \* most candidates without an outcome, aggregator alone
MaxDelay == 2           \* largest latency threshold tried, in ms
MaxOver == 1            \* how far above the threshold a measured latency may lie
MaxAddrs == 2           \* longest address list given to the latency test
MaxThreads == 2         \* widest worker pool
MaxCandidates == 2      \* longest candidate list given to the probe stage
MaxChunks == 2          \* most recv calls with data the peer of one call answers

----------------------------------------------------------------------------
(* Text helpers: Python's str methods on sequences of characters *)

\* s.endswith(suf)
endswith(s, suf) ==
    /\ Len(s) >= Len(suf)
    /\ SubSeq(s, Len(s) - Len(suf) + 1, Len(s)) = suf

\* s[:-3]
DropLast3(s) == SubSeq(s, 1, Len(s) - 3)

\* s.split(sep) for a one-character separator: empty parts are kept
RECURSIVE split(_, _)
split(s, sep) ==
    IF \A i \in 1..Len(s) : s[i] # sep
    THEN <<s>>
    ELSE LET p == CHOOSE i \in 1..Len(s) :
                      /\ s[i] = sep
                      /\ \A j \in 1..(i - 1) : s[j] # sep
         IN  <<SubSeq(s, 1, p - 1)>> \o split(SubSeq(s, p + 1, Len(s)), sep)

\* sep.join(parts)
RECURSIVE join(_, _)
join(sep, parts) ==
    IF Len(parts) = 0 THEN <<>>
    ELSE IF Len(parts) = 1 THEN parts[1]
    ELSE parts[1] \o <<sep>> \o join(sep, Tail(parts))

Digits == <<"0", "1", "2", "3", "4", "5", "6", "7", "8", "9">>

\* str(n) for n >= 0: decimal, no leading zeros
RECURSIVE str(_)
str(n) ==
    IF n < 10 THEN <<Digits[n + 1]>>
    ELSE str(n \div 10) \o <<Digits[(n % 10) + 1]>>

----------------------------------------------------------------------------
(* get_random_ipv4s *)

Slash24 == <<"/", "2", "4">>

\* The lines the sampler is tried on: two well-formed /24 blocks, a /16
\* block, a /24 line with three octets, an IPv6 /48 block, a bare address,
\* and a line shorter than the mask.
BlockSamples ==
    { <<"1", ".", "2", ".", "3", ".", "0", "/", "2", "4">>,
      <<"9", ".", "8", ".", "7", ".", "0", "/", "2", "4">>,
      <<"1", ".", "2", ".", "3", ".", "0", "/", "1", "6">>,
      <<"1", ".", "2", ".", "3", "/", "2", "4">>,
      <<"a", ":", "b", ":", ":", "/", "4", "8">>,
      <<"1", ".", "2", ".", "3", ".", "4">>,
      <<"2", "4">> }

\* Values random.randint(0, 255) is tried with: both ends, and one, two and
\* three digits
RandOctets == {0, 7, 42, 255}

\* The loop body with the mask test left out
SampleSubnet_NoMaskTest(subnet, r) ==
    IF Len(subnet) < 3 THEN <<>>
    ELSE LET octets == split(DropLast3(subnet), ".")
         IN  IF Len(octets) # 4 THEN <<>>
             ELSE <<join(".", [octets EXCEPT ![4] = str(r)])>>

\* One iteration of the for loop: what it appends to random_ips for one
\* line, r being the value random.randint returns
SampleSubnet(subnet, r) ==
    IF ~endswith(subnet, Slash24) THEN <<>>
    ELSE LET base_ip == DropLast3(subnet)
             octets == split(base_ip, ".")
         IN  IF Len(octets) # 4 THEN <<>>
             ELSE <<join(".", [octets EXCEPT ![4] = str(r)])>>

SamplerIdle ==
    /\ subnets = <<>>
    /\ sampled = 0
    /\ random_ips = <<>>

SamplerInit ==
    /\ subnets \in UNION {[1..n -> BlockSamples] : n \in 0..MaxBlocks}
    /\ sampled = 0
    /\ random_ips = <<>>

get_random_ipv4s ==
    /\ sampled < Len(subnets)
    /\ \E r \in RandOctets :
           random_ips' = random_ips \o SampleSubnet(subnets[sampled + 1], r)
    /\ sampled' = sampled + 1
    /\ UNCHANGED <<subnets, samplerOthers>>

----------------------------------------------------------------------------
(* TestResult and analyze_results *)

\* A float that is a ratio of two small integers; the code's float
\* operations on these values are exact at the precision it prints.
Ratio(n, d) == [num |-> n, den |-> d]

\* int(x * 100)
IntTimes100(x) == (x.num * 100) \div x.den

TestResult(ip, min_latency, max_latency, avg_latency, loss_rate) ==
    [ip |-> ip, min_latency |-> min_latency, max_latency |-> max_latency,
     avg_latency |-> avg_latency, loss_rate |-> loss_rate]

\* format(x, ".0f") of num/den, num >= 0, den > 0: nearest integer, ties to even
RoundHalfEven(num, den) ==
    LET q == num \div den
        r == num % den
    IN  IF 2 * r > den \/ (2 * r = den /\ q % 2 = 1) THEN q + 1 ELSE q

RECURSIVE SumMinLatency(_)
SumMinLatency(rs) ==
    IF rs = <<>> THEN 0 ELSE Head(rs).min_latency + SumMinLatency(Tail(rs))

\* The bucket taken from int(res.loss_rate * 10): the percent scale forgotten
Bucket_Tenths(res) == (((res.loss_rate.num * 10) \div res.loss_rate.den) \div 10) * 10

\* bucket = (int(res.loss_rate * 100) // 10) * 10
Bucket(res) == (IntTimes100(res.loss_rate) \div 10) * 10

\* The dict groups after the first loop: bucket -> members in input order
Groups(results) ==
    [b \in {Bucket(results[i]) : i \in 1..Len(results)} |->
        SelectSeq(results, LAMBDA res : Bucket(res) = b)]

Bands == [k \in 1..11 |-> (k - 1) * 10]
MaxBarWidth == 50

\* The row of band 100 counted like the other bands
BandRow_NoSubtraction(results, total, bucket) ==
    LET groups == Groups(results)
        count == IF bucket \in DOMAIN groups THEN Len(groups[bucket]) ELSE 0
    IN  [bucket |-> bucket, count |-> count, avg_lat_str |-> <<>>,
         proportion |-> RoundHalfEven(count * 10000, total),
         bar_length |-> (count * MaxBarWidth) \div total]

\* One iteration of the second loop, total > 0.  avg_lat_str is <<>> for
\* "N/A" and <<n>> for "n ms"; proportion is in hundredths of a percent.
BandRow(results, total, bucket) ==
    LET groups == Groups(results)
        unsuccessful_count == total - Len(results)
        count == IF bucket = 100 THEN unsuccessful_count
                 ELSE IF bucket \in DOMAIN groups THEN Len(groups[bucket])
                 ELSE 0
        avg_lat_str ==
            IF bucket = 100 \/ count = 0 THEN <<>>
            ELSE <<RoundHalfEven(SumMinLatency(groups[bucket]), count)>>
    IN  [bucket |-> bucket, count |-> count, avg_lat_str |-> avg_lat_str,
         proportion |-> RoundHalfEven(count * 10000, total),
         bar_length |-> (count * MaxBarWidth) \div total]

\* The whole call.  With total = 0 the first iteration of the second loop
\* divides by zero: ZeroDivisionError, and no row is printed.
analyze_results(results, total) ==
    IF total = 0
    THEN [raised |-> TRUE, rows |-> <<>>]
    ELSE [raised |-> FALSE,
          rows |-> [k \in 1..11 |-> BandRow(results, total, Bands[k])]]

\* range(10): the trials per address
Trials == 10

AggIdle ==
    /\ outcomes = <<>>
    /\ total_ips = 0
    /\ agg_pc = "idle"
    /\ histogram = <<>>

\* The outcomes the aggregator alone is tried on: every success count 1..10
\* with a minimum latency of 1 or 2 ms
AggOutcomes ==
    {TestResult(1, m, 2, m, Ratio(Trials - s, Trials)) : s \in 1..Trials, m \in 1..2}

AggInit ==
    /\ outcomes \in UNION {[1..n -> AggOutcomes] : n \in 0..MaxOutcomes}
    /\ total_ips \in Len(outcomes)..(Len(outcomes) + MaxMissing)
    /\ agg_pc = "call"
    /\ histogram = <<>>

AnalyzeCall ==
    /\ agg_pc = "call"
    /\ LET out == analyze_results(outcomes, total_ips)
       IN  /\ histogram' = out.rows
           /\ agg_pc' = IF out.raised THEN "raised" ELSE "done"
    /\ UNCHANGED <<outcomes, total_ips, aggOthers>>

----------------------------------------------------------------------------
(* run_detailed_test.test_ip: the trials of one address *)

\* float('inf'), above every latency of the model
Infinity == 1000000

Min(a, b) == IF a < b THEN a ELSE b
Max(a, b) == IF a > b THEN a ELSE b

\* The locals before the first trial
AccInit ==
    [success_count |-> 0, total_latency |-> 0,
     min_latency |-> Infinity, max_latency |-> 0]

\* What one trial can observe: the connect raised (refused, timed out), or
\* it returned and the measured time was n ms
TrialOutcomes(d) == {<<>>} \cup {<<n>> : n \in 0..(d + MaxOver)}

\* One trial without the comparison with the threshold
TrialStep_NoThreshold(a, outcome, d) ==
    IF outcome = <<>> THEN a
    ELSE [success_count |-> a.success_count + 1,
          total_latency |-> a.total_latency + outcome[1],
          min_latency |-> Min(a.min_latency, outcome[1]),
          max_latency |-> Max(a.max_latency, outcome[1])]

\* One trial with a latency equal to the threshold counted as too slow
TrialStep_Exclusive(a, outcome, d) ==
    IF outcome = <<>> THEN a
    ELSE IF outcome[1] >= d THEN a
    ELSE [success_count |-> a.success_count + 1,
          total_latency |-> a.total_latency + outcome[1],
          min_latency |-> Min(a.min_latency, outcome[1]),
          max_latency |-> Max(a.max_latency, outcome[1])]

\* One iteration of the trial loop: the locals after a trial with the given
\* outcome, d being the threshold
TrialStep(a, outcome, d) ==
    IF outcome = <<>> THEN a
    ELSE IF outcome[1] > d THEN a
    ELSE [success_count |-> a.success_count + 1,
          total_latency |-> a.total_latency + outcome[1],
          min_latency |-> Min(a.min_latency, outcome[1]),
          max_latency |-> Max(a.max_latency, outcome[1])]

\* The return value with the loss rate taken as successes / 10
TestOutcome_SuccessRate(ip, a) ==
    IF a.success_count > 0
    THEN <<TestResult(ip, a.min_latency, a.max_latency,
                      a.total_latency \div a.success_count,
                      Ratio(a.success_count, 10))>>
    ELSE <<>>

\* The return value with the average taken over the 10 trials
TestOutcome_AvgOverTrials(ip, a) ==
    IF a.success_count > 0
    THEN <<TestResult(ip, a.min_latency, a.max_latency,
                      a.total_latency \div 10,
                      Ratio(10 - a.success_count, 10))>>
    ELSE <<>>

\* After the loop: the TestResult, or None (<<>>) without a success
TestOutcome(ip, a) ==
    IF a.success_count > 0
    THEN <<TestResult(ip, a.min_latency, a.max_latency,
                      a.total_latency \div a.success_count,
                      Ratio(10 - a.success_count, 10))>>
    ELSE <<>>

TipIdle ==
    /\ delay = 0
    /\ trial = 0
    /\ latency_ms = <<>>
    /\ acc = AccInit
    /\ tip_pc = "idle"
    /\ tip_ret = <<>>

TipInit ==
    /\ delay \in 1..MaxDelay
    /\ trial = 0
    /\ latency_ms = <<>>
    /\ acc = AccInit
    /\ tip_pc = "loop"
    /\ tip_ret = <<>>

\* One trial with a failed trial tried again: the loop index stays
TipTrial_Retry ==
    /\ tip_pc = "loop"
    /\ trial < Trials
    /\ \E outcome \in TrialOutcomes(delay) :
           /\ latency_ms' = outcome
           /\ acc' = TrialStep(acc, outcome, delay)
           /\ trial' = IF TrialStep(acc, outcome, delay) = acc THEN trial ELSE trial + 1
    /\ UNCHANGED <<delay, tip_pc, tip_ret, tipOthers>>

\* One trial: connect, measure, close, compare with the threshold
TipTrial ==
    /\ tip_pc = "loop"
    /\ trial < Trials
    /\ \E outcome \in TrialOutcomes(delay) :
           /\ latency_ms' = outcome
           /\ acc' = TrialStep(acc, outcome, delay)
    /\ trial' = trial + 1
    /\ UNCHANGED <<delay, tip_pc, tip_ret, tipOthers>>

\* The loop is over: build the result
TipReturn ==
    /\ tip_pc = "loop"
    /\ trial = Trials
    /\ tip_ret' = TestOutcome(1, acc)
    /\ tip_pc' = "returned"
    /\ UNCHANGED <<delay, trial, latency_ms, acc, tipOthers>>

----------------------------------------------------------------------------
(* run_detailed_test: the pool, the collection of the futures, the sort,  *)
(* the result file and the call of analyze_results                        *)

\* The for loop of test_ip over the outcomes of its trials, in order
RECURSIVE RunTrials(_, _, _)
RunTrials(a, run, d) ==
    IF run = <<>> THEN a
    ELSE RunTrials(TrialStep(a, Head(run), d), Tail(run), d)

\* The try block of test_ip for one address
test_ip(ip, run, d) == TestOutcome(ip, RunTrials(AccInit, run, d))

\* Ten trials: a connect in d - 1 ms, then b in exactly d ms, then c in
\* d + 1 ms, the others raising
RunOf(a, b, c, d) ==
    [k \in 1..Trials |->
        IF k <= a THEN <<d - 1>>
        ELSE IF k <= a + b THEN <<d>>
        ELSE IF k <= a + b + c THEN <<d + 1>>
        ELSE <<>>]

\* The trial sequences an address of the pool is tried with: all raising,
\* all too slow, too slow and raising, all fast, all at the threshold, a
\* single success, and two with eight successes and different averages
TrialRuns(d) ==
    { RunOf(0, 0, 0, d), RunOf(0, 0, 10, d), RunOf(0, 0, 5, d),
      RunOf(10, 0, 0, d), RunOf(0, 10, 0, d), RunOf(0, 1, 4, d),
      RunOf(3, 5, 1, d), RunOf(8, 0, 2, d) }

\* a < b for floats held as ratios
RatioLess(a, b) == a.num * b.den < b.num * a.den

\* The comparison for key = (avg_latency, loss_rate): latency first
KeyLess_LatencyFirst(x, y) ==
    \/ x.avg_latency < y.avg_latency
    \/ /\ x.avg_latency = y.avg_latency
       /\ RatioLess(x.loss_rate, y.loss_rate)

\* key(x) < key(y) for key = (loss_rate, avg_latency)
KeyLess(x, y) ==
    \/ RatioLess(x.loss_rate, y.loss_rate)
    \/ /\ ~RatioLess(y.loss_rate, x.loss_rate)
       /\ x.avg_latency < y.avg_latency

\* list.sort is stable: x goes before the first element with a larger key
RECURSIVE InsertByKey(_, _)
InsertByKey(sorted, x) ==
    IF sorted = <<>> THEN <<x>>
    ELSE IF KeyLess(x, Head(sorted)) THEN <<x>> \o sorted
    ELSE <<Head(sorted)>> \o InsertByKey(Tail(sorted), x)

RECURSIVE SortResults(_)
SortResults(rs) ==
    IF rs = <<>> THEN <<>>
    ELSE InsertByKey(SortResults(SubSeq(rs, 1, Len(rs) - 1)), rs[Len(rs)])

\* One row of the result file
FileRow(res) ==
    <<res.ip, str(res.min_latency), str(res.max_latency),
      str(res.avg_latency), str(IntTimes100(res.loss_rate))>>

NoHist == [raised |-> FALSE, rows |-> <<>>]

TestIdle ==
    /\ test_delay = 0
    /\ test_threads = 0
    /\ test_total = 0
    /\ test_pc = <<>>
    /\ test_run = <<>>
    /\ test_ret = <<>>
    /\ test_count = 0
    /\ test_seen = <<>>
    /\ test_lock = 0
    /\ test_progress = <<>>
    /\ test_collected = 0
    /\ test_results = <<>>
    /\ test_main = "idle"
    /\ test_file = <<>>
    /\ test_hist = NoHist

\* The state once every address is submitted to the pool
TestInit ==
    /\ test_delay \in 1..MaxDelay
    /\ test_threads \in 1..MaxThreads
    /\ test_total \in 0..MaxAddrs
    /\ test_pc = [i \in 1..test_total |-> "queued"]
    /\ test_run = [i \in 1..test_total |-> <<>>]
    /\ test_ret = [i \in 1..test_total |-> <<>>]
    /\ test_count = 0
    /\ test_seen = [i \in 1..test_total |-> 0]
    /\ test_lock = 0
    /\ test_progress = <<>>
    /\ test_collected = 0
    /\ test_results = <<>>
    /\ test_main = "pool"
    /\ test_file = <<>>
    /\ test_hist = NoHist

TestBusy ==
    {i \in 1..test_total : test_pc[i] \in {"running", "finally", "locked", "counting"}}

\* A free worker thread takes the oldest queued address
TestStart(i) ==
    /\ test_pc[i] = "queued"
    /\ \A j \in 1..(i - 1) : test_pc[j] # "queued"
    /\ Cardinality(TestBusy) < test_threads
    /\ test_pc' = [test_pc EXCEPT ![i] = "running"]
    /\ UNCHANGED <<test_delay, test_threads, test_total, test_run, test_ret,
                   test_count, test_seen, test_lock, test_progress, test_collected,
                   test_results, test_main, test_file, test_hist, testOthers>>

\* The try block: the ten trials and the return value
TestTrials(i) ==
    /\ test_pc[i] = "running"
    /\ \E run \in TrialRuns(test_delay) :
           /\ test_run' = [test_run EXCEPT ![i] = run]
           /\ test_ret' = [test_ret EXCEPT ![i] = test_ip(i, run, test_delay)]
    /\ test_pc' = [test_pc EXCEPT ![i] = "finally"]
    /\ UNCHANGED <<test_delay, test_threads, test_total,
                   test_count, test_seen, test_lock, test_progress, test_collected,
                   test_results, test_main, test_file, test_hist, testOthers>>

\* The entry of the with block taken without waiting for the lock
TestAcquire_NoLock(i) ==
    /\ test_pc[i] = "finally"
    /\ test_lock' = i
    /\ test_pc' = [test_pc EXCEPT ![i] = "locked"]
    /\ UNCHANGED <<test_delay, test_threads, test_total, test_run, test_ret,
                   test_count, test_seen, test_progress, test_collected,
                   test_results, test_main, test_file, test_hist, testOthers>>

\* finally: with lock
TestAcquire(i) ==
    /\ test_pc[i] = "finally"
    /\ test_lock = 0
    /\ test_lock' = i
    /\ test_pc' = [test_pc EXCEPT ![i] = "locked"]
    /\ UNCHANGED <<test_delay, test_threads, test_total, test_run, test_ret,
                   test_count, test_seen, test_progress, test_collected,
                   test_results, test_main, test_file, test_hist, testOthers>>

\* Under the lock, count += 1: the counter is read
TestReadCount(i) ==
    /\ test_pc[i] = "locked"
    /\ test_seen' = [test_seen EXCEPT ![i] = test_count]
    /\ test_pc' = [test_pc EXCEPT ![i] = "counting"]
    /\ UNCHANGED <<test_delay, test_threads, test_total, test_run, test_ret,
                   test_count, test_lock, test_progress, test_collected,
                   test_results, test_main, test_file, test_hist, testOthers>>

\* Under the lock: the counter is written and the progress line printed;
\* then the lock is released and the call returns
TestProgress(i) ==
    /\ test_pc[i] = "counting"
    /\ test_count' = test_seen[i] + 1
    /\ test_progress' = Append(test_progress, test_seen[i] + 1)
    /\ test_seen' = [test_seen EXCEPT ![i] = 0]
    /\ test_lock' = 0
    /\ test_pc' = [test_pc EXCEPT ![i] = "done"]
    /\ UNCHANGED <<test_delay, test_threads, test_total, test_run, test_ret,
                   test_collected,
                   test_results, test_main, test_file, test_hist, testOthers>>

\* The collection taking the next future as it is, finished or not
TestCollect_NoWait ==
    /\ test_main = "pool"
    /\ test_collected < test_total
    /\ test_results' = test_results \o test_ret[test_collected + 1]
    /\ test_collected' = test_collected + 1
    /\ UNCHANGED <<test_delay, test_threads, test_total, test_pc, test_run,
                   test_ret, test_count, test_seen, test_lock, test_progress,
                   test_main, test_file, test_hist, testOthers>>

\* The main thread: future.result() of the next future, in submission order
TestCollect ==
    /\ test_main = "pool"
    /\ test_collected < test_total
    /\ test_pc[test_collected + 1] = "done"
    /\ test_results' = test_results \o test_ret[test_collected + 1]
    /\ test_collected' = test_collected + 1
    /\ UNCHANGED <<test_delay, test_threads, test_total, test_pc, test_run,
                   test_ret, test_count, test_seen, test_lock, test_progress,
                   test_main, test_file, test_hist, testOthers>>

\* The step after the with block without the check for an empty list
TestCheckSort_NoEmptyCheck ==
    /\ test_main = "pool"
    /\ test_collected = test_total
    /\ test_main' = "sorted"
    /\ test_results' = SortResults(test_results)
    /\ UNCHANGED <<test_delay, test_threads, test_total, test_pc, test_run,
                   test_ret, test_count, test_seen, test_lock, test_progress,
                   test_collected, test_file, test_hist, testOthers>>

\* After the with block: no result ends the call, else the list is sorted
TestCheckSort ==
    /\ test_main = "pool"
    /\ test_collected = test_total
    /\ IF test_results = <<>>
       THEN /\ test_main' = "no_valid_ip"
            /\ UNCHANGED test_results
       ELSE /\ test_main' = "sorted"
            /\ test_results' = SortResults(test_results)
    /\ UNCHANGED <<test_delay, test_threads, test_total, test_pc, test_run,
                   test_ret, test_count, test_seen, test_lock, test_progress,
                   test_collected, test_file, test_hist, testOthers>>

\* The result file: written, or the write raises and the call returns
TestWrite ==
    /\ test_main = "sorted"
    /\ \/ /\ test_file' = [k \in 1..Len(test_results) |-> FileRow(test_results[k])]
          /\ test_main' = "written"
       \/ /\ test_main' = "write_failed"
          /\ UNCHANGED test_file
    /\ UNCHANGED <<test_delay, test_threads, test_total, test_pc, test_run,
                   test_ret, test_count, test_seen, test_lock, test_progress,
                   test_collected, test_results, test_hist, testOthers>>

\* The call with the length of the result list given as the total
TestAnalyze_TotalFromResults ==
    /\ test_main = "written"
    /\ test_hist' = analyze_results(test_results, Len(test_results))
    /\ test_main' = "analyzed"
    /\ UNCHANGED <<test_delay, test_threads, test_total, test_pc, test_run,
                   test_ret, test_count, test_seen, test_lock, test_progress,
                   test_collected, test_results, test_file, testOthers>>

\* analyze_results(results, total)
TestAnalyze ==
    /\ test_main = "written"
    /\ test_hist' = analyze_results(test_results, test_total)
    /\ test_main' = IF test_total = 0 THEN "raised" ELSE "analyzed"
    /\ UNCHANGED <<test_delay, test_threads, test_total, test_pc, test_run,
                   test_ret, test_count, test_seen, test_lock, test_progress,
                   test_collected, test_results, test_file, testOthers>>

SpecTestNext ==
    \/ \E i \in 1..test_total : TestStart(i)
    \/ \E i \in 1..test_total : TestTrials(i)
    \/ \E i \in 1..test_total : TestAcquire(i)
    \/ \E i \in 1..test_total : TestReadCount(i)
    \/ \E i \in 1..test_total : TestProgress(i)
    \/ TestCollect
    \/ TestCheckSort
    \/ TestWrite
    \/ TestAnalyze

----------------------------------------------------------------------------
(* run_ip_scan.scan_ip: the exchange with one candidate *)

(* The bytes of a response are modelled by the pieces the code looks for:  *)
(* "uag" is the text uag=Mozilla/5.0, "colo=" the key of the token, "A"    *)
(* and "B" upper-case letters, "x" any other text, "CRLF" a line end and   *)
(* "bad" a byte that is not valid UTF-8.                                   *)
Upper == {"A", "B"}
Separator == <<"CRLF", "CRLF">>

\* needle in haystack
Contains(haystack, needle) ==
    \E p \in 1..(Len(haystack) - Len(needle) + 1) :
        SubSeq(haystack, p, p + Len(needle) - 1) = needle

\* What the peer does after the connect: the chunks successive recv calls
\* return, and then either it closes (recv returns b"") or recv raises
Script(chunks, end) == [chunks |-> chunks, end |-> end]

Scripts ==
    { Script(<< <<"x", "CRLF", "CRLF", "uag", "colo=", "A">> >>, "close"),
      Script(<< <<"x", "CRLF", "CRLF", "uag", "colo=", "B">> >>, "close"),
      Script(<< <<"x", "CRLF", "CRLF">>, <<"uag", "colo=", "A">> >>, "close"),
      Script(<< <<"uag", "colo=", "A">> >>, "close"),
      Script(<< <<"uag">>, <<"colo=", "A", "CRLF", "CRLF">> >>, "close"),
      Script(<< <<"x", "CRLF", "CRLF", "uag", "x">> >>, "close"),
      Script(<< <<"x", "CRLF", "CRLF", "colo=", "A">> >>, "close"),
      Script(<< <<"x", "CRLF", "CRLF", "uag", "colo=", "x">> >>, "close"),
      Script(<< <<"uag", "colo=", "B", "CRLF">>, <<"CRLF", "x">> >>, "close"),
      Script(<< <<"uag", "colo=", "A">> >>, "raise"),
      Script(<< <<"CRLF", "CRLF", "uag", "colo=", "x", "colo=", "B", "A">> >>, "close"),
      Script(<< <<"CRLF", "CRLF", "uag", "colo=", "bad", "A">> >>, "close"),
      Script(<< >>, "close") }

\* The while loop: append what recv returns until recv returns nothing or
\* the separator is in the response.  raised: recv raised (timeout, reset).
RECURSIVE ReadLoop(_, _, _)
ReadLoop(response, chunks, end) ==
    IF chunks = <<>>
    THEN [raised |-> end = "raise", response |-> response]
    ELSE LET grown == response \o Head(chunks)
         IN  IF Contains(grown, Separator)
             THEN [raised |-> FALSE, response |-> grown]
             ELSE ReadLoop(grown, Tail(chunks), end)

\* response.decode('utf-8', errors='ignore'): undecodable bytes are dropped
decode(response) == SelectSeq(response, LAMBDA b : b # "bad")

\* The group of a match of colo=([A-Z]+) starting at p: the longest run of
\* upper-case letters from p on
RECURSIVE UpperRun(_, _)
UpperRun(text, p) ==
    IF p <= Len(text) /\ text[p] \in Upper
    THEN <<text[p]>> \o UpperRun(text, p + 1)
    ELSE <<>>

ColoAt(text, p) ==
    /\ text[p] = "colo="
    /\ p + 1 <= Len(text)
    /\ text[p + 1] \in Upper

\* The search with the pattern colo=([A-Z]*), which an empty code matches
search_colo_EmptyCode(text) ==
    IF \E p \in 1..Len(text) : text[p] = "colo="
    THEN LET p == CHOOSE q \in 1..Len(text) :
                      /\ text[q] = "colo="
                      /\ \A r \in 1..(q - 1) : text[r] # "colo="
         IN  <<UpperRun(text, p + 1)>>
    ELSE <<>>

\* re.search(r'colo=([A-Z]+)', text): <<>> without a match, else <<group 1>>
\* of the leftmost match
search_colo(text) ==
    IF \E p \in 1..Len(text) : ColoAt(text, p)
    THEN LET p == CHOOSE q \in 1..Len(text) :
                      /\ ColoAt(text, q)
                      /\ \A r \in 1..(q - 1) : ~ColoAt(text, r)
         IN  <<UpperRun(text, p + 1)>>
    ELSE <<>>

ScanResult(ip, data_center, region, city, latency_ms_) ==
    [ip |-> ip, data_center |-> data_center, region |-> region, city |-> city,
     latency_ms |-> latency_ms_]

\* The parse with a code missing from the directory treated as no result
parse_response_DropUnknown(ip, response, tcp_duration_ms, locations) ==
    LET response_text == decode(response)
        match == search_colo(response_text)
    IN  IF Contains(response_text, <<"uag">>) /\ match # <<>>
           /\ match[1] \in DOMAIN locations
        THEN <<ScanResult(ip, match[1], locations[match[1]].region,
                          locations[match[1]].city, tcp_duration_ms)>>
        ELSE <<>>

\* The parse without the test for the echo of the User-Agent
parse_response_NoEchoTest(ip, response, tcp_duration_ms, locations) ==
    LET response_text == decode(response)
        match == search_colo(response_text)
    IN  IF match # <<>>
        THEN IF match[1] \in DOMAIN locations
             THEN <<ScanResult(ip, match[1], locations[match[1]].region,
                               locations[match[1]].city, tcp_duration_ms)>>
             ELSE <<ScanResult(ip, match[1], <<>>, <<>>, tcp_duration_ms)>>
        ELSE <<>>

\* From the decode to the return: <<>> for None, else <<ScanResult>>
parse_response(ip, response, tcp_duration_ms, locations) ==
    LET response_text == decode(response)
        match == search_colo(response_text)
    IN  IF Contains(response_text, <<"uag">>)
        THEN IF match # <<>>
             THEN LET data_center == match[1]
                  IN  IF data_center \in DOMAIN locations
                      THEN <<ScanResult(ip, data_center,
                                        locations[data_center].region,
                                        locations[data_center].city,
                                        tcp_duration_ms)>>
                      ELSE <<ScanResult(ip, data_center, <<>>, <<>>,
                                        tcp_duration_ms)>>
             ELSE <<>>
        ELSE <<>>

\* The connect latencies (ms) a candidate is tried with
ConnectLatencies == {3, 8}

\* The location directory a run is tried with: it knows the code A only
Location(iata, region, city) == [iata |-> iata, region |-> region, city |-> city]
LocationDirectories ==
    { [c \in {<<"A">>} |-> Location(c, <<"r">>, <<"c">>)] }

----------------------------------------------------------------------------
(* run_ip_scan.scan_ip: one call, receive by receive *)

\* The data one recv call is tried with: a whole response, headers up to
\* the separator, a body with the echo and a token, headers with the echo
\* and a token ending in half a separator, the other half, a token followed
\* by the separator, the echo alone, a token split by an undecodable byte,
\* and a key without a code
ChunkSamples ==
    { <<"x", "CRLF", "CRLF", "uag", "colo=", "A">>,
      <<"x", "CRLF", "CRLF">>,
      <<"uag", "colo=", "A">>,
      <<"uag", "colo=", "B", "CRLF">>,
      <<"CRLF", "x">>,
      <<"colo=", "A", "CRLF", "CRLF">>,
      <<"uag">>,
      <<"colo=", "bad", "B">>,
      <<"colo=", "x">> }

\* The peers one call is tried with: up to MaxChunks recv calls return data,
\* then the peer closes or the recv raises
PeerScripts ==
    {Script(chunks, end) :
        chunks \in UNION {[1..n -> ChunkSamples] : n \in 0..MaxChunks},
        end \in {"close", "raise"}}

SipIdle ==
    /\ sip_peer = Script(<<>>, "close")
    /\ sip_locations = <<>>
    /\ sip_pc = "idle"
    /\ sip_tcp_ms = 0
    /\ sip_reads = 0
    /\ sip_response = <<>>
    /\ sip_raised = FALSE
    /\ sip_ret = <<>>

SipInit ==
    /\ sip_peer \in PeerScripts
    /\ sip_locations \in LocationDirectories
    /\ sip_pc = "connect"
    /\ sip_tcp_ms = 0
    /\ sip_reads = 0
    /\ sip_response = <<>>
    /\ sip_raised = FALSE
    /\ sip_ret = <<>>

\* Lines 186-195: the connect and the send; either raises, which ends the
\* try block, or the duration of the connect is measured
SipConnect ==
    /\ sip_pc = "connect"
    /\ \/ /\ sip_raised' = TRUE
          /\ sip_pc' = "returned"
          /\ UNCHANGED sip_tcp_ms
       \/ /\ sip_tcp_ms' \in ConnectLatencies
          /\ sip_pc' = "recv"
          /\ UNCHANGED sip_raised
    /\ UNCHANGED <<sip_peer, sip_locations, sip_reads, sip_response, sip_ret,
                   sipOthers>>

\* The iteration of the while loop that never tests for the separator
SipRecv_ReadAll ==
    /\ sip_pc = "recv"
    /\ IF sip_reads < Len(sip_peer.chunks)
       THEN /\ sip_response' = sip_response \o sip_peer.chunks[sip_reads + 1]
            /\ sip_reads' = sip_reads + 1
            /\ UNCHANGED <<sip_pc, sip_raised>>
       ELSE /\ sip_raised' = (sip_peer.end = "raise")
            /\ sip_pc' = IF sip_peer.end = "raise" THEN "returned" ELSE "parse"
            /\ UNCHANGED <<sip_response, sip_reads>>
    /\ UNCHANGED <<sip_peer, sip_locations, sip_tcp_ms, sip_ret, sipOthers>>

\* Lines 196-203, one iteration of the while loop: recv returns data, which
\* is appended and ends the loop if the separator is now in the response;
\* or it returns nothing (the peer closed), which ends the loop; or it
\* raises (timeout, reset), which ends the try block
SipRecv ==
    /\ sip_pc = "recv"
    /\ IF sip_reads < Len(sip_peer.chunks)
       THEN LET data == sip_peer.chunks[sip_reads + 1]
            IN  /\ sip_response' = sip_response \o data
                /\ sip_reads' = sip_reads + 1
                /\ sip_pc' = IF Contains(sip_response \o data, Separator)
                             THEN "parse" ELSE "recv"
                /\ UNCHANGED sip_raised
       ELSE /\ sip_raised' = (sip_peer.end = "raise")
            /\ sip_pc' = IF sip_peer.end = "raise" THEN "returned" ELSE "parse"
            /\ UNCHANGED <<sip_response, sip_reads>>
    /\ UNCHANGED <<sip_peer, sip_locations, sip_tcp_ms, sip_ret, sipOthers>>

\* Lines 205-216: the response is decoded and parsed, and the call returns
SipParse ==
    /\ sip_pc = "parse"
    /\ sip_ret' = parse_response(1, sip_response, sip_tcp_ms, sip_locations)
    /\ sip_pc' = "returned"
    /\ UNCHANGED <<sip_peer, sip_locations, sip_tcp_ms, sip_reads, sip_response,
                   sip_raised, sipOthers>>

SpecScanIpNext == SipConnect \/ SipRecv \/ SipParse

----------------------------------------------------------------------------
(* main and run_ip_scan: the files, the pool of scan_ip workers, the       *)
(* collection of the futures, the sort, ip.csv, and the choice of the      *)
(* addresses handed to run_detailed_test                                   *)

\* latency_str of a ScanResult
latency_str(ms) == str(ms) \o <<" ", "m", "s">>

\* The row of ip.csv for one result
CsvRow(res) ==
    <<res.ip, res.data_center, res.region, res.city, latency_str(res.latency_ms)>>

CsvFile(exists, rows) == [exists |-> exists, rows |-> rows]

\* ip.csv when main starts: absent, or left by an earlier run with one
\* address (called 0) of the point of presence A
CsvSamples ==
    { CsvFile(FALSE, <<>>),
      CsvFile(TRUE, << <<0, <<"A">>, <<"r">>, <<"c">>, latency_str(5)>> >>) }

\* The insertion of a sort that puts an element before its equals
RECURSIVE InsertByLatency_TiesReversed(_, _)
InsertByLatency_TiesReversed(sorted, x) ==
    IF sorted = <<>> THEN <<x>>
    ELSE IF x.latency_ms <= Head(sorted).latency_ms THEN <<x>> \o sorted
    ELSE <<Head(sorted)>> \o InsertByLatency_TiesReversed(Tail(sorted), x)

\* results.sort(key=lambda x: x.latency_ms), a stable sort
RECURSIVE InsertByLatency(_, _)
InsertByLatency(sorted, x) ==
    IF sorted = <<>> THEN <<x>>
    ELSE IF x.latency_ms < Head(sorted).latency_ms THEN <<x>> \o sorted
    ELSE <<Head(sorted)>> \o InsertByLatency(Tail(sorted), x)

RECURSIVE SortByLatency(_)
SortByLatency(rs) ==
    IF rs = <<>> THEN <<>>
    ELSE InsertByLatency(SortByLatency(SubSeq(rs, 1, Len(rs) - 1)), rs[Len(rs)])

\* The check after the pool with the exit left out
AfterPool_NoExit(results) == "write_csv"

\* Lines 236-241: where run_ip_scan goes once the pool has drained
AfterPool(results) == IF results = <<>> THEN "exit1" ELSE "write_csv"

\* Where main goes when the location directory fails to load: run_ip_scan
\* returns and main goes on with select_data_center_from_csv
AfterLocationsFailure == "select"

\* The position and the locals of one call of scan_ip.  pc: "queued",
\* "running", "connected", "received", "finally", "locked", "counting",
\* "done".  The locals are kept while the try block uses them; ret is the
\* return value; seen is the value count += 1 has read, 0 outside it.
ScanLocals ==
    [pc |-> "queued", tcp_duration_ms |-> 0, response |-> <<>>, ret |-> <<>>,
     seen |-> 0]

ScanIdle ==
    /\ main_pc = "idle"
    /\ ip_csv = CsvFile(FALSE, <<>>)
    /\ csv_opened = FALSE
    /\ printed = {}
    /\ location_map = <<>>
    /\ scan_threads = 0
    /\ scan_total = 0
    /\ scan_w = <<>>
    /\ scan_count = 0
    /\ scan_lock = 0
    /\ scan_progress = <<>>
    /\ scan_collected = 0
    /\ scan_results = <<>>
    /\ selected_dc = <<>>
    /\ main_ip_list = <<>>

ScanInit ==
    /\ main_pc = "start"
    /\ ip_csv \in CsvSamples
    /\ csv_opened = FALSE
    /\ printed = {}
    /\ location_map = <<>>
    /\ scan_threads \in 1..MaxThreads
    /\ scan_total = 0
    /\ scan_w = <<>>
    /\ scan_count = 0
    /\ scan_lock = 0
    /\ scan_progress = <<>>
    /\ scan_collected = 0
    /\ scan_results = <<>>
    /\ selected_dc = <<>>
    /\ main_ip_list = <<>>

\* main, lines 468-503: update the data when ip.csv is missing or the user
\* answers y
MainChoose ==
    /\ main_pc = "start"
    /\ \E update_choice \in {"y", "n"} :
           /\ ~ip_csv.exists => update_choice = "y"
           /\ main_pc' = IF update_choice = "y" THEN "fetch_list" ELSE "select"
    /\ UNCHANGED <<ip_csv, csv_opened, printed, location_map, scan_threads,
                   scan_total, scan_w, scan_count, scan_lock, scan_progress,
                   scan_collected, scan_results, selected_dc, main_ip_list,
                   scanOthers>>

\* run_ip_scan, lines 125-145: the CIDR list is read or downloaded and one
\* address is drawn per block; a failure is printed and ends run_ip_scan
ScanFetchList ==
    /\ main_pc = "fetch_list"
    /\ \/ /\ printed' = printed \cup {"list_failed"}
          /\ main_pc' = "select"
          /\ UNCHANGED scan_total
       \/ /\ scan_total' \in 0..MaxCandidates
          /\ main_pc' = "load_locations"
          /\ UNCHANGED printed
    /\ UNCHANGED <<ip_csv, csv_opened, location_map, scan_threads,
                   scan_w, scan_count, scan_lock, scan_progress,
                   scan_collected, scan_results, selected_dc, main_ip_list,
                   scanOthers>>

\* run_ip_scan, lines 147-180 and 228-229: the location directory is loaded
\* and every candidate submitted; a failure is printed and ends run_ip_scan
ScanLoadLocations ==
    /\ main_pc = "load_locations"
    /\ \/ /\ printed' = printed \cup {"locations_failed"}
          /\ main_pc' = AfterLocationsFailure
          /\ UNCHANGED <<location_map, scan_w>>
       \/ /\ location_map' \in LocationDirectories
          /\ scan_w' = [i \in 1..scan_total |-> ScanLocals]
          /\ main_pc' = "pool"
          /\ UNCHANGED printed
    /\ UNCHANGED <<ip_csv, csv_opened, scan_threads, scan_total,
                   scan_count, scan_lock, scan_progress,
                   scan_collected, scan_results, selected_dc, main_ip_list,
                   scanOthers>>

ScanBusy ==
    {i \in 1..Len(scan_w) :
        scan_w[i].pc \in {"running", "connected", "received", "finally", "locked",
                          "counting"}}

\* A free worker thread takes the oldest queued candidate
ScanStart(i) ==
    /\ main_pc = "pool"
    /\ scan_w[i].pc = "queued"
    /\ \A j \in 1..(i - 1) : scan_w[j].pc # "queued"
    /\ Cardinality(ScanBusy) < scan_threads
    /\ scan_w' = [scan_w EXCEPT ![i].pc = "running"]
    /\ UNCHANGED <<main_pc, ip_csv, csv_opened, printed, location_map,
                   scan_threads, scan_total, scan_count, scan_lock,
                   scan_progress, scan_collected, scan_results, selected_dc,
                   main_ip_list, scanOthers>>

\* Lines 186-190: the connect raises (timeout, refused, unreachable) or its
\* duration is measured
ScanConnect(i) ==
    /\ scan_w[i].pc = "running"
    /\ \/ scan_w' = [scan_w EXCEPT ![i].pc = "finally"]
       \/ \E ms \in ConnectLatencies :
              scan_w' = [scan_w EXCEPT ![i].pc = "connected",
                                       ![i].tcp_duration_ms = ms]
    /\ UNCHANGED <<main_pc, ip_csv, csv_opened, printed, location_map,
                   scan_threads, scan_total, scan_count, scan_lock,
                   scan_progress, scan_collected, scan_results, selected_dc,
                   main_ip_list, scanOthers>>

\* Lines 193-203: the request is sent and the response read; an exception
\* of send or recv is swallowed and leaves no result
ScanExchange(i) ==
    /\ scan_w[i].pc = "connected"
    /\ \/ scan_w' = [scan_w EXCEPT ![i] = [ScanLocals EXCEPT !.pc = "finally"]]
       \/ \E script \in Scripts :
              LET io == ReadLoop(<<>>, script.chunks, script.end)
              IN  IF io.raised
                  THEN scan_w' = [scan_w EXCEPT
                           ![i] = [ScanLocals EXCEPT !.pc = "finally"]]
                  ELSE scan_w' = [scan_w EXCEPT ![i].pc = "received",
                                                ![i].response = io.response]
    /\ UNCHANGED <<main_pc, ip_csv, csv_opened, printed, location_map,
                   scan_threads, scan_total, scan_count, scan_lock,
                   scan_progress, scan_collected, scan_results, selected_dc,
                   main_ip_list, scanOthers>>

\* Lines 205-216: the response is decoded and parsed, and the return value
\* is fixed
ScanParse(i) ==
    /\ scan_w[i].pc = "received"
    /\ scan_w' = [scan_w EXCEPT
           ![i] = [ScanLocals EXCEPT
                      !.pc = "finally",
                      !.ret = parse_response(i, scan_w[i].response,
                                  scan_w[i].tcp_duration_ms, location_map)]]
    /\ UNCHANGED <<main_pc, ip_csv, csv_opened, printed, location_map,
                   scan_threads, scan_total, scan_count, scan_lock,
                   scan_progress, scan_collected, scan_results, selected_dc,
                   main_ip_list, scanOthers>>

\* finally: with lock
ScanAcquire(i) ==
    /\ scan_w[i].pc = "finally"
    /\ scan_lock = 0
    /\ scan_lock' = i
    /\ scan_w' = [scan_w EXCEPT ![i].pc = "locked"]
    /\ UNCHANGED <<main_pc, ip_csv, csv_opened, printed, location_map,
                   scan_threads, scan_total, scan_count,
                   scan_progress, scan_collected, scan_results, selected_dc,
                   main_ip_list, scanOthers>>

\* Under the lock, count += 1: the counter is read
ScanReadCount(i) ==
    /\ scan_w[i].pc = "locked"
    /\ scan_w' = [scan_w EXCEPT ![i].pc = "counting", ![i].seen = scan_count]
    /\ UNCHANGED <<main_pc, ip_csv, csv_opened, printed, location_map,
                   scan_threads, scan_total, scan_count, scan_lock,
                   scan_progress, scan_collected, scan_results, selected_dc,
                   main_ip_list, scanOthers>>

\* Under the lock: the counter is written and the progress line printed;
\* then the lock is released and the call returns
ScanProgress(i) ==
    /\ scan_w[i].pc = "counting"
    /\ scan_count' = scan_w[i].seen + 1
    /\ scan_progress' = Append(scan_progress, scan_w[i].seen + 1)
    /\ scan_lock' = 0
    /\ scan_w' = [scan_w EXCEPT ![i].pc = "done", ![i].seen = 0]
    /\ UNCHANGED <<main_pc, ip_csv, csv_opened, printed, location_map,
                   scan_threads, scan_total, scan_collected, scan_results,
                   selected_dc, main_ip_list, scanOthers>>

\* The collection with a future without a result raising in the main
\* thread, which leaves run_ip_scan
ScanCollect_Reraise ==
    /\ main_pc = "pool"
    /\ scan_collected < scan_total
    /\ scan_w[scan_collected + 1].pc = "done"
    /\ scan_results' = scan_results \o scan_w[scan_collected + 1].ret
    /\ scan_collected' = scan_collected + 1
    /\ main_pc' = IF scan_w[scan_collected + 1].ret = <<>> THEN "raised" ELSE main_pc
    /\ UNCHANGED <<ip_csv, csv_opened, printed, location_map,
                   scan_threads, scan_total, scan_w, scan_count, scan_lock,
                   scan_progress, selected_dc, main_ip_list, scanOthers>>

\* The main thread: future.result() of the next future, in submission order
ScanCollect ==
    /\ main_pc = "pool"
    /\ scan_collected < scan_total
    /\ scan_w[scan_collected + 1].pc = "done"
    /\ scan_results' = scan_results \o scan_w[scan_collected + 1].ret
    /\ scan_collected' = scan_collected + 1
    /\ UNCHANGED <<main_pc, ip_csv, csv_opened, printed, location_map,
                   scan_threads, scan_total, scan_w, scan_count, scan_lock,
                   scan_progress, selected_dc, main_ip_list, scanOthers>>

\* Lines 236-241: without a result the message is printed and sys.exit(1)
\* ends the program; else the results are sorted by latency
ScanCheckSort ==
    /\ main_pc = "pool"
    /\ scan_collected = scan_total
    /\ main_pc' = AfterPool(scan_results)
    /\ IF scan_results = <<>>
       THEN /\ printed' = printed \cup {"no_valid_ip"}
            /\ UNCHANGED scan_results
       ELSE /\ scan_results' = SortByLatency(scan_results)
            /\ UNCHANGED printed
    /\ UNCHANGED <<ip_csv, csv_opened, location_map,
                   scan_threads, scan_total, scan_w, scan_count, scan_lock,
                   scan_progress, scan_collected, selected_dc, main_ip_list,
                   scanOthers>>

\* Lines 244-252: ip.csv is written; if that raises, the message is printed
\* and the file is as it was or cut short
ScanWriteCsv ==
    /\ main_pc = "write_csv"
    /\ csv_opened' = TRUE
    /\ \/ /\ ip_csv' = CsvFile(TRUE, [k \in 1..Len(scan_results) |-> CsvRow(scan_results[k])])
          /\ printed' = printed \cup {"scan_done"}
       \/ /\ ip_csv' \in {ip_csv, CsvFile(TRUE, <<>>)}
          /\ printed' = printed \cup {"csv_write_failed"}
    /\ main_pc' = "select"
    /\ UNCHANGED <<location_map, scan_threads, scan_total, scan_w, scan_count,
                   scan_lock, scan_progress, scan_collected, scan_results,
                   selected_dc, main_ip_list, scanOthers>>

\* The point-of-presence codes of the rows of ip.csv
CsvDataCenters == {ip_csv.rows[k][2] : k \in 1..Len(ip_csv.rows)}

\* The addresses of the rows of a point of presence; of all rows for <<>>
RECURSIVE CsvAddresses(_, _)
CsvAddresses(rows, dc) ==
    IF rows = <<>> THEN <<>>
    ELSE (IF dc = <<>> \/ Head(rows)[2] = dc THEN <<Head(rows)[1]>> ELSE <<>>)
             \o CsvAddresses(Tail(rows), dc)

\* main, lines 507-510, with select_data_center_from_csv: ip.csv is read,
\* the user names a point of presence of the file or none; without an
\* address the message is printed and main returns
MainSelect ==
    /\ main_pc = "select"
    /\ IF ~ip_csv.exists
       THEN /\ printed' = printed \cup {"csv_unreadable", "no_ip_found"}
            /\ main_pc' = "returned"
            /\ UNCHANGED <<selected_dc, main_ip_list>>
       ELSE \E dc \in CsvDataCenters \cup {<<>>} :
                LET ip_list == CsvAddresses(ip_csv.rows, dc)
                IN  /\ selected_dc' = dc
                    /\ main_ip_list' = ip_list
                    /\ IF ip_list = <<>>
                       THEN /\ printed' = printed \cup {"no_ip_found"}
                            /\ main_pc' = "returned"
                       ELSE /\ main_pc' = "write_txt"
                            /\ UNCHANGED printed
    /\ UNCHANGED <<ip_csv, csv_opened, location_map, scan_threads, scan_total,
                   scan_w, scan_count, scan_lock, scan_progress,
                   scan_collected, scan_results, scanOthers>>

\* main, lines 512-523: ip.txt is written (a failure is only printed) and
\* run_detailed_test is called with the chosen addresses
MainStartTest ==
    /\ main_pc = "write_txt"
    /\ \/ printed' = printed \cup {"txt_written"}
       \/ printed' = printed \cup {"txt_write_failed"}
    /\ main_pc' = "detailed_test"
    /\ UNCHANGED <<ip_csv, csv_opened, location_map, scan_threads, scan_total,
                   scan_w, scan_count, scan_lock, scan_progress,
                   scan_collected, scan_results, selected_dc, main_ip_list,
                   scanOthers>>

SpecScanNext ==
    \/ MainChoose
    \/ ScanFetchList
    \/ ScanLoadLocations
    \/ \E i \in 1..Len(scan_w) : ScanStart(i)
    \/ \E i \in 1..Len(scan_w) : ScanConnect(i)
    \/ \E i \in 1..Len(scan_w) : ScanExchange(i)
    \/ \E i \in 1..Len(scan_w) : ScanParse(i)
    \/ \E i \in 1..Len(scan_w) : ScanAcquire(i)
    \/ \E i \in 1..Len(scan_w) : ScanReadCount(i)
    \/ \E i \in 1..Len(scan_w) : ScanProgress(i)
    \/ ScanCollect
    \/ ScanCheckSort
    \/ ScanWriteCsv
    \/ MainSelect
    \/ MainStartTest

----------------------------------------------------------------------------
(* The claims about get_random_ipv4s (checked under SpecSampler) *)

\* A line the loop keeps: it ends in /24 and what precedes the mask has
\* four dot-separated parts
C7_Eligible(b) ==
    /\ endswith(b, Slash24)
    /\ Len(split(DropLast3(b), ".")) = 4

\* The positions of the kept lines among the first n, in increasing order
RECURSIVE C7_Sources(_)
C7_Sources(n) ==
    IF n = 0 THEN <<>>
    ELSE C7_Sources(n - 1) \o (IF C7_Eligible(subnets[n]) THEN <<n>> ELSE <<>>)

C7_IsOctet(part) == \E n \in 0..255 : part = str(n)

\* C7: at every point of the loop the candidates built so far are, in
\* order, one per consumed line that ends in /24 with four octets and none
\* for any other line (so none for a line not ending in /24, and never more
\* candidates than lines); each candidate has the first three octets of its
\* line and a fourth octet that is the decimal form of a number in 0..255.
C7_SamplerOnePerEligibleBlock ==
    LET src == C7_Sources(sampled)
    IN  /\ Len(random_ips) = Len(src)
        /\ Len(random_ips) <= sampled
        /\ \A k \in 1..Len(src) : endswith(subnets[src[k]], Slash24)
        /\ \A k \in 1..Len(random_ips) :
               k <= Len(src) =>
                   LET got == split(random_ips[k], ".")
                       blk == split(DropLast3(subnets[src[k]]), ".")
                   IN  /\ Len(got) = 4
                       /\ SubSeq(got, 1, 3) = SubSeq(blk, 1, 3)
                       /\ C7_IsOctet(got[4])

\* A finished pass over three lines that skipped a line without the /24 mask
\* and kept two others
C7_Witness ==
    /\ Len(subnets) = 3
    /\ sampled = 3
    /\ Len(random_ips) = 2
    /\ \E i \in 1..3 : ~endswith(subnets[i], Slash24)
    /\ random_ips[1] # random_ips[2]

----------------------------------------------------------------------------
(* The claims about analyze_results alone (checked under SpecAgg) *)

RECURSIVE SumCounts(_)
SumCounts(rows) ==
    IF rows = <<>> THEN 0 ELSE Head(rows).count + SumCounts(Tail(rows))

C8_LossPercent(res) ==
    CHOOSE p \in 0..100 : p * res.loss_rate.den = 100 * res.loss_rate.num

C8_Band(res) == (C8_LossPercent(res) \div 10) * 10

C8_Row(b) == histogram[(b \div 10) + 1]

\* C8: in the printed histogram every successful outcome is counted in the
\* band floor(lossPercent/10)*10 and in no other, that band is one of
\* 0..90, and in the scenario of three candidates, two succeeding with loss
\* 0% and 20%, bands 0, 20 and 100 have count 1 and every other band 0.
C8_OutcomeInItsBand ==
    agg_pc = "done" =>
        /\ \A i \in 1..Len(outcomes) : C8_Band(outcomes[i]) \in {0, 10, 20, 30, 40, 50, 60, 70, 80, 90}
        /\ \A k \in 1..10 :
               histogram[k].count =
                   Cardinality({i \in 1..Len(outcomes) : C8_Band(outcomes[i]) = (k - 1) * 10})
        /\ ( /\ total_ips = 3
             /\ Len(outcomes) = 2
             /\ {C8_LossPercent(outcomes[i]) : i \in 1..2} = {0, 20} )
           => \A k \in 1..11 :
                  histogram[k].count = IF (k - 1) * 10 \in {0, 20, 100} THEN 1 ELSE 0

\* The scenario: three candidates, losses 0% and 20%, one without outcome
C8_Witness ==
    /\ agg_pc = "done"
    /\ total_ips = 3
    /\ Len(outcomes) = 2
    /\ C8_LossPercent(outcomes[1]) = 0
    /\ C8_LossPercent(outcomes[2]) = 20
    /\ C8_Row(0).count = 1 /\ C8_Row(20).count = 1 /\ C8_Row(100).count = 1

----------------------------------------------------------------------------
(* The claims about one call of test_ip (checked under SpecTestIp) *)

\* A trial has just ended with the connect returning in exactly delay ms
C2_BoundaryTrial ==
    /\ trial' = trial + 1
    /\ latency_ms' = <<delay>>

\* C2 as stated: a trial that connects in exactly the threshold is a
\* failure, leaving the success count and min/max/sum latency as they were.
C2_BoundaryIsFailure ==
    [][C2_BoundaryTrial => acc' = acc]_vars

\* C2 amended: a trial that connects in exactly the threshold is a success
\* (it adds one to the success count, its latency to the sum, and updates
\* min and max); only a latency strictly above the threshold is a failure.
C2_BoundaryIsSuccess ==
    [][ /\ C2_BoundaryTrial =>
            /\ acc'.success_count = acc.success_count + 1
            /\ acc'.total_latency = acc.total_latency + delay
            /\ acc'.min_latency = Min(acc.min_latency, delay)
            /\ acc'.max_latency = Max(acc.max_latency, delay)
        /\ (trial' = trial + 1 /\ latency_ms' # <<>> /\ latency_ms'[1] > delay)
               => acc' = acc ]_vars

\* The first trial connected in exactly the threshold and was counted
C2_Witness ==
    /\ trial = 1
    /\ latency_ms = <<delay>>
    /\ acc.success_count = 1
    /\ acc.min_latency = delay

\* C4: a returned outcome with s successes out of 10 (1 <= s <= 10) has
\* loss rate exactly (10 - s)/10, a multiple of 1/10 in [0, 1]; with 10
\* successes the loss rate is 0.
C4_LossRateFromSuccesses ==
    (tip_pc = "returned" /\ tip_ret # <<>>) =>
        LET s == acc.success_count
            lr == tip_ret[1].loss_rate
        IN  /\ s \in 1..10
            /\ lr.den > 0
            /\ lr.num * 10 = (10 - s) * lr.den
            /\ \E k \in 0..10 : lr.num * 10 = k * lr.den
            /\ 0 <= lr.num /\ lr.num <= lr.den
            /\ (s = 10 => lr.num = 0)

\* A call that returned with all 10 trials successful and loss rate 0
C4_Witness ==
    /\ tip_pc = "returned"
    /\ tip_ret # <<>>
    /\ acc.success_count = 10
    /\ tip_ret[1].loss_rate.num = 0

\* This step is a trial that succeeded: one more success
C16_SuccessStep ==
    /\ latency_ms' # <<>>
    /\ acc'.success_count = acc.success_count + 1

\* This step is a trial that failed: the locals are as they were
C16_FailureStep == acc' = acc

\* C16: every connect of a call is one of its 10 trials: a step that
\* changes the measured latency or the locals is made inside the loop, ends
\* exactly one trial (the trial index goes up by one, whether the trial
\* succeeded or failed, so a failed trial is not tried again) and counts as
\* one success or one failure; the outcome is computed only after the tenth
\* trial, and then successes and failures (the loss numerator) add up to 10.
C16_TenTrialsInSequence ==
    /\ [][ /\ (latency_ms' # latency_ms \/ acc' # acc \/ trial' # trial) =>
                  /\ tip_pc = "loop" /\ tip_pc' = "loop"
                  /\ trial < 10
                  /\ trial' = trial + 1
                  /\ C16_SuccessStep \/ C16_FailureStep
           /\ tip_pc' # tip_pc =>
                  /\ trial = 10
                  /\ trial' = 10 ]_vars
    /\ [](trial \in 0..10 /\ acc.success_count \in 0..trial)
    /\ [](tip_pc = "returned" =>
              /\ trial = 10
              /\ tip_ret # <<>> =>
                     acc.success_count * tip_ret[1].loss_rate.den
                         + 10 * tip_ret[1].loss_rate.num
                             = 10 * tip_ret[1].loss_rate.den)

\* A call that returned an outcome after 10 trials of which 3 succeeded,
\* the last trial being a failure
C16_Witness ==
    /\ tip_pc = "returned"
    /\ trial = 10
    /\ acc.success_count = 3
    /\ latency_ms = <<>>
    /\ tip_ret # <<>>
    /\ tip_ret[1].loss_rate.num = 7

\* C20: the minimum only ever changes to the latency just measured, and
\* every returned outcome has 0 <= min <= avg <= max <= threshold, where
\* avg is the floor of the sum of the successful latencies over the success
\* count, and min and max are the locals of the loop, min being below the
\* initial infinity.
C20_OutcomeWithinBounds ==
    /\ [][acc'.min_latency # acc.min_latency =>
              latency_ms' = <<acc'.min_latency>>]_vars
    /\ [](acc.success_count > 0 =>
              /\ acc.min_latency * acc.success_count <= acc.total_latency
              /\ acc.total_latency <= acc.max_latency * acc.success_count)
    /\ []((tip_pc = "returned" /\ tip_ret # <<>>) =>
              LET r == tip_ret[1]
              IN  /\ 0 <= r.min_latency
                  /\ r.min_latency <= r.avg_latency
                  /\ r.avg_latency <= r.max_latency
                  /\ r.max_latency <= delay
                  /\ r.min_latency = acc.min_latency
                  /\ r.max_latency = acc.max_latency
                  /\ r.min_latency < Infinity
                  /\ r.avg_latency * acc.success_count <= acc.total_latency
                  /\ acc.total_latency < (r.avg_latency + 1) * acc.success_count)

\* A returned outcome with min < avg < max = threshold whose average was
\* rounded down
C20_Witness ==
    /\ tip_pc = "returned"
    /\ tip_ret # <<>>
    /\ tip_ret[1].min_latency < tip_ret[1].avg_latency
    /\ tip_ret[1].avg_latency < tip_ret[1].max_latency
    /\ tip_ret[1].max_latency = delay
    /\ tip_ret[1].avg_latency * acc.success_count < acc.total_latency

----------------------------------------------------------------------------
(* The claims about the latency-test stage (checked under SpecTest) *)

\* Trial k of address i succeeded: the connect returned within the threshold
C3_TrialSucceeded(i, k) ==
    /\ test_run[i][k] # <<>>
    /\ test_run[i][k][1] <= test_delay

\* The trials of address i have run and every one failed: it raised
\* (connect error, timeout) or was slower than the threshold
C3_AllFailed(i) ==
    /\ test_run[i] # <<>>
    /\ \A k \in 1..Trials :
           \/ test_run[i][k] = <<>>
           \/ test_run[i][k][1] > test_delay

\* The addresses in the output: the list results and the result file
C3_Output ==
    {test_results[k].ip : k \in 1..Len(test_results)}
        \cup {test_file[k][1] : k \in 1..Len(test_file)}

\* C3: under every interleaving, an address whose 10 trials all failed is
\* never in the output (the list results, before or after the sort, nor the
\* result file), and an address in the output has run its trials with at
\* least one success.
C3_FailedAddressAbsent ==
    /\ \A i \in 1..test_total : C3_AllFailed(i) => i \notin C3_Output
    /\ \A i \in C3_Output :
           /\ i \in 1..test_total
           /\ test_run[i] # <<>>
           /\ \E k \in 1..Trials : C3_TrialSucceeded(i, k)

\* The stage is over; the first address failed all its trials, some by
\* being too slow and some by raising, and is absent; the other is in the file
C3_Witness ==
    /\ test_main = "analyzed"
    /\ test_total = 2
    /\ C3_AllFailed(1)
    /\ \E k \in 1..Trials : test_run[1][k] # <<>>
    /\ \E k \in 1..Trials : test_run[1][k] = <<>>
    /\ C3_Output = {2}
    /\ Len(test_file) = 1

\* The loss rates of two outcomes compared as fractions
C13_LowerLoss(x, y) ==
    x.loss_rate.num * y.loss_rate.den < y.loss_rate.num * x.loss_rate.den

C13_SameLoss(x, y) ==
    x.loss_rate.num * y.loss_rate.den = y.loss_rate.num * x.loss_rate.den

\* C13: from the sort on, the result list holds one outcome per address
\* that returned one, ordered by loss rate ascending and, among equal loss
\* rates, by average latency ascending: an outcome with a strictly lower
\* loss rate precedes one with a higher loss rate whatever their average
\* latencies; and the result file has its rows in the order of the list.
C13_RankedByLossThenLatency ==
    test_main \in {"sorted", "written", "write_failed", "analyzed"} =>
        /\ \A k, l \in 1..Len(test_results) :
               k < l =>
                   \/ C13_LowerLoss(test_results[k], test_results[l])
                   \/ /\ C13_SameLoss(test_results[k], test_results[l])
                      /\ test_results[k].avg_latency <= test_results[l].avg_latency
        /\ \A k, l \in 1..Len(test_results) :
               (C13_LowerLoss(test_results[k], test_results[l]) /\ k # l) => k < l
        /\ {test_results[k].ip : k \in 1..Len(test_results)}
               = {i \in 1..test_total : test_ret[i] # <<>>}
        /\ \A k \in 1..Len(test_results) :
               test_ret[test_results[k].ip] = <<test_results[k]>>
        /\ Len(test_results) = Cardinality({i \in 1..test_total : test_ret[i] # <<>>})
        /\ test_main \in {"written", "analyzed"} =>
               /\ Len(test_file) = Len(test_results)
               /\ \A k \in 1..Len(test_file) : test_file[k] = FileRow(test_results[k])

\* The file is written; the second address, with the lower loss rate and
\* the higher average latency, was moved before the first
C13_Witness ==
    /\ test_main = "written"
    /\ Len(test_results) = 2
    /\ test_results[1].ip = 2
    /\ test_results[2].ip = 1
    /\ C13_LowerLoss(test_results[1], test_results[2])
    /\ test_results[1].avg_latency > test_results[2].avg_latency
    /\ test_file[1][1] = 2

\* C15: when the latency-test stage has run the aggregation, the last row
\* of the histogram is band 100, its count is the number of submitted
\* addresses minus the number of outcomes, which is the number of addresses
\* without a successful trial, and its average-latency field is
\* "not applicable".
C15_Band100IsTheRest ==
    test_main = "analyzed" =>
        LET row == test_hist.rows[11]
        IN  /\ ~test_hist.raised
            /\ row.bucket = 100
            /\ row.count = test_total - Len(test_results)
            /\ row.count = Cardinality({i \in 1..test_total : C3_AllFailed(i)})
            /\ row.count = Cardinality({i \in 1..test_total : i \notin C3_Output})
            /\ row.avg_lat_str = <<>>

\* The aggregation has run on two addresses of which the second had no
\* successful trial: band 100 counts one
C15_Witness ==
    /\ test_main = "analyzed"
    /\ test_total = 2
    /\ C3_AllFailed(2)
    /\ Len(test_results) = 1
    /\ test_hist.rows[11].count = 1
    /\ test_hist.rows[11].avg_lat_str = <<>>

\* C21: the aggregator is called only with at least one outcome and no
\* more outcomes than addresses, so with a total of at least 1: its
\* division by the total never raises and no count it prints is negative,
\* band 100 included.  Without an outcome, so also for an empty address
\* list, the stage ends before the sort and the aggregator is not called.
\* A worker computes its progress percentage only for an address of the
\* list, so with a total of at least 1.
C21_AggregatorNeverDividesByZero ==
    /\ [][test_hist' # test_hist =>
              /\ test_main = "written"
              /\ 1 <= Len(test_results)
              /\ Len(test_results) <= test_total
              /\ ~test_hist'.raised]_vars
    /\ [](test_results = <<>> =>
              /\ test_main \in {"pool", "no_valid_ip"}
              /\ test_hist = NoHist)
    /\ [](test_main # "raised" /\ ~test_hist.raised)
    /\ [](test_main = "analyzed" =>
              /\ test_total >= 1
              /\ Len(test_hist.rows) = 11
              /\ \A k \in 1..11 : test_hist.rows[k].count >= 0
              /\ test_hist.rows[11].count >= 0)
    /\ [](\A i \in 1..Len(test_pc) :
              test_pc[i] \in {"locked", "counting"} => test_total >= 1)

\* The aggregation has run with as many outcomes as addresses: band 100
\* counts none
C21_Witness ==
    /\ test_main = "analyzed"
    /\ test_total = 2
    /\ Len(test_results) = 2
    /\ test_hist.rows[11].count = 0

----------------------------------------------------------------------------
(* The claims about the probe stage and main (checked under SpecScan) *)

\* The decoded text holds a point-of-presence token: colo= followed by an
\* upper-case letter
C5_HasToken(text) ==
    \E p \in 1..(Len(text) - 1) : text[p] = "colo=" /\ text[p + 1] \in Upper

\* Every result of the list is the return value of the candidate it names,
\* whose call has returned
C5_ResultsAreReturnValues ==
    \A k \in 1..Len(scan_results) :
        LET i == scan_results[k].ip
        IN  /\ i \in 1..Len(scan_w)
            /\ scan_w[i].pc = "done"
            /\ scan_w[i].ret = <<scan_results[k]>>

\* Once this run has written ip.csv, its rows are rows of results
C5_CsvRowsAreResults ==
    "scan_done" \in printed =>
        \A r \in 1..Len(ip_csv.rows) :
            \E k \in 1..Len(scan_results) : ip_csv.rows[r] = CsvRow(scan_results[k])

\* C5: a candidate gets a return value only from the parse of a received
\* response whose text holds a point-of-presence token; the result list
\* holds nothing but such return values, each under its own candidate, and
\* ip.csv nothing but rows of the result list.  So a candidate whose
\* response holds no token is in no output, whatever the others do.
C5_NoTokenNoResult ==
    /\ [][\A i \in 1..Len(scan_w) :
              scan_w'[i].ret # scan_w[i].ret =>
                  /\ scan_w[i].pc = "received"
                  /\ C5_HasToken(decode(scan_w[i].response))]_vars
    /\ [](C5_ResultsAreReturnValues /\ C5_CsvRowsAreResults)

\* The second candidate has a result in the list while the first holds a
\* received response with the echo but no token, about to be parsed
C5_Witness ==
    /\ Len(scan_w) = 2
    /\ scan_w[1].pc = "received"
    /\ Contains(decode(scan_w[1].response), <<"uag">>)
    /\ ~C5_HasToken(decode(scan_w[1].response))
    /\ scan_w[2].pc = "done"
    /\ scan_w[2].ret # <<>>

\* The code of the leftmost token of a text that holds one
C6_Code(text) ==
    LET p == CHOOSE q \in 1..(Len(text) - 1) :
                 /\ text[q] = "colo=" /\ text[q + 1] \in Upper
                 /\ \A r \in 1..(q - 1) :
                        ~(text[r] = "colo=" /\ text[r + 1] \in Upper)
    IN  UpperRun(text, p + 1)

\* Candidate i holds a received response with the echo and a token whose
\* code the location directory does not know
C6_UnknownCode(i) ==
    /\ scan_w[i].pc = "received"
    /\ LET text == decode(scan_w[i].response)
       IN  /\ Contains(text, <<"uag">>)
           /\ C5_HasToken(text)
           /\ C6_Code(text) \notin DOMAIN location_map

\* C6: the parse of a received response with the echo and a token whose
\* code is not in the location directory returns a result with that code,
\* the measured connect latency and empty region and city; and a returned
\* result is in the result list from the moment its future is consumed.
C6_UnknownCodeKept ==
    /\ [][\A i \in 1..Len(scan_w) :
              (C6_UnknownCode(i) /\ scan_w'[i].pc = "finally") =>
                  scan_w'[i].ret =
                      <<ScanResult(i, C6_Code(decode(scan_w[i].response)),
                                   <<>>, <<>>, scan_w[i].tcp_duration_ms)>>]_vars
    /\ [](\A i \in 1..scan_collected :
              scan_w[i].ret # <<>> =>
                  \E k \in 1..Len(scan_results) : scan_results[k] = scan_w[i].ret[1])

\* ip.csv holds a row with the code B, unknown to the directory, and empty
\* region and city
C6_Witness ==
    /\ csv_opened
    /\ <<"B">> \notin DOMAIN location_map
    /\ \E r \in 1..Len(ip_csv.rows) :
           /\ ip_csv.rows[r][2] = <<"B">>
           /\ ip_csv.rows[r][3] = <<>>
           /\ ip_csv.rows[r][4] = <<>>

\* C9: when the pool has drained with an empty result list (so also for an
\* empty candidate list) the run prints the no-usable-address message and
\* exits with status 1, having written no ip.csv; from there nothing more
\* happens, so the latency test never starts.  With a result the run goes
\* on to write ip.csv.
C9_NoResultEndsRun ==
    /\ [][(main_pc = "pool" /\ main_pc' # "pool") =>
              /\ scan_collected = scan_total
              /\ IF scan_results = <<>>
                 THEN /\ main_pc' = "exit1"
                      /\ "no_valid_ip" \in printed'
                      /\ ip_csv' = ip_csv
                      /\ ~csv_opened'
                 ELSE main_pc' = "write_csv"]_vars
    /\ [][main_pc = "exit1" => vars' = vars]_vars
    /\ [](main_pc = "exit1" =>
              /\ scan_results = <<>>
              /\ "no_valid_ip" \in printed
              /\ ~csv_opened)

\* The run has exited on an empty candidate list, an ip.csv of an earlier
\* run being present
C9_Witness ==
    /\ main_pc = "exit1"
    /\ scan_total = 0
    /\ ip_csv.exists
    /\ Len(ip_csv.rows) > 0

\* The return values of the first n candidates, in submission order
RECURSIVE C11_Returned(_)
C11_Returned(n) ==
    IF n = 0 THEN <<>> ELSE C11_Returned(n - 1) \o scan_w[n].ret

\* Candidate i leaves its try block in this step
C11_LeavesTry(i) ==
    /\ scan_w[i].pc \in {"running", "connected", "received"}
    /\ scan_w'[i].pc = "finally"

\* C11: a candidate that leaves its try block by a failure of the connect,
\* the send or a receive has no return value, and whichever way it leaves,
\* the step touches no other candidate, not the result list and not the
\* main thread; a return value never changes afterwards.  While the pool
\* runs the result list is the return values of the consumed futures in
\* submission order; the pool is left only when every candidate has
\* finished, and then the list holds exactly the return values of the
\* candidates that have one.
C11_FailuresStayLocal ==
    /\ [][\A i \in 1..Len(scan_w) :
              /\ C11_LeavesTry(i) =>
                     /\ \A j \in 1..Len(scan_w) : j # i => scan_w'[j] = scan_w[j]
                     /\ scan_results' = scan_results
                     /\ main_pc' = main_pc
                     /\ scan_w[i].pc # "received" => scan_w'[i].ret = <<>>
              /\ scan_w[i].pc \in {"finally", "locked", "counting", "done"} =>
                     scan_w'[i].ret = scan_w[i].ret]_vars
    /\ [](main_pc = "pool" => scan_results = C11_Returned(scan_collected))
    /\ [](main_pc # "pool" =>
              /\ \A i \in 1..Len(scan_w) : scan_w[i].pc = "done"
              /\ Len(scan_results) = Len(C11_Returned(Len(scan_w)))
              /\ \A i \in 1..Len(scan_w) :
                     scan_w[i].ret # <<>> =>
                         \E k \in 1..Len(scan_results) :
                             scan_results[k] = scan_w[i].ret[1])

\* The pool of two candidates has drained: the first has no result, the
\* second has one and it is the only result of the list
C11_Witness ==
    /\ main_pc = "write_csv"
    /\ Len(scan_w) = 2
    /\ scan_w[1].ret = <<>>
    /\ scan_w[2].ret # <<>>
    /\ scan_results = scan_w[2].ret

\* C17: once the probe stage is past its pool, the result list is in
\* non-decreasing order of connect latency and results of equal latency
\* are in the order in which their candidates were submitted (candidate i
\* is the i-th submitted), whatever the order in which the workers
\* finished; ip.csv, when written, has its rows in that order.
C17_SortedByLatencyStable ==
    /\ main_pc # "pool" =>
           \A k, l \in 1..Len(scan_results) :
               k < l =>
                   \/ scan_results[k].latency_ms < scan_results[l].latency_ms
                   \/ /\ scan_results[k].latency_ms = scan_results[l].latency_ms
                      /\ scan_results[k].ip < scan_results[l].ip
    /\ "scan_done" \in printed =>
           /\ Len(ip_csv.rows) = Len(scan_results)
           /\ \A k \in 1..Len(scan_results) : ip_csv.rows[k] = CsvRow(scan_results[k])

\* ip.csv is written with two rows of equal latency, in submission order
C17_Witness ==
    /\ "scan_done" \in printed
    /\ scan_threads = 2
    /\ Len(scan_results) = 2
    /\ scan_results[1].latency_ms = scan_results[2].latency_ms
    /\ scan_results[1].ip = 1
    /\ Len(ip_csv.rows) = 2
    /\ ip_csv.rows[1][1] = 1

\* C10 as stated: once the failure to load the location directory is
\* reported, no candidate is probed and the latency test is never started.
C10_LocationFailureEndsRun ==
    "locations_failed" \in printed =>
        /\ scan_w = <<>>
        /\ main_pc # "detailed_test"

----------------------------------------------------------------------------
(* The claims about one call of scan_ip (checked under SpecScanIp) *)

\* The call has returned from the end of its try block, not by an exception
C18_Parsed == sip_pc = "returned" /\ ~sip_raised /\ sip_tcp_ms # 0

C18_Echo == <<"uag">>

\* What follows the first header/body separator of a text; nothing if the
\* text has no separator
C18_Body(text) ==
    IF Contains(text, Separator)
    THEN LET p == CHOOSE q \in 1..(Len(text) - 1) :
                      /\ SubSeq(text, q, q + 1) = Separator
                      /\ \A r \in 1..(q - 1) : SubSeq(text, r, r + 1) # Separator
         IN  SubSeq(text, p + 2, Len(text))
    ELSE <<>>

\* C18 as stated: a candidate whose response body, the part after the
\* header/body separator, does not hold the echo of the User-Agent has no
\* result.
C18_BodyEchoRequired ==
    sip_ret # <<>> => Contains(C18_Body(decode(sip_response)), C18_Echo)

\* C18 amended: a candidate has no result whenever the text received,
\* headers and body alike, does not hold the echo of the User-Agent, even
\* if it holds a point-of-presence token; with the echo and a token
\* anywhere in the text received it has a result.
C18_NoEchoNoResult ==
    /\ sip_ret # <<>> => Contains(decode(sip_response), C18_Echo)
    /\ (C18_Parsed /\ ~Contains(decode(sip_response), C18_Echo)) => sip_ret = <<>>
    /\ ( /\ C18_Parsed
         /\ Contains(decode(sip_response), C18_Echo)
         /\ C5_HasToken(decode(sip_response)) ) => sip_ret # <<>>

\* The call has returned without a result on a response that holds a token
\* and no echo
C18_Witness ==
    /\ C18_Parsed
    /\ C5_HasToken(decode(sip_response))
    /\ ~Contains(decode(sip_response), C18_Echo)
    /\ sip_ret = <<>>

\* The data of the first n recv calls of the peer
RECURSIVE C19_Sent(_)
C19_Sent(n) ==
    IF n = 0 THEN <<>> ELSE C19_Sent(n - 1) \o sip_peer.chunks[n]

\* The first recv call whose data completes the separator; the last one
\* with data if none does
C19_LastRead ==
    LET completing == {n \in 1..Len(sip_peer.chunks) :
                          Contains(C19_Sent(n), Separator)}
    IN  IF completing = {} THEN Len(sip_peer.chunks)
        ELSE CHOOSE n \in completing : \A m \in completing : n <= m

\* C19: the response is what the recv calls made so far returned; the
\* loop goes on only while the response has no separator; no recv is made
\* after the one that completes the separator; the loop ends with the
\* separator in the response or with the peer closed; and a result is
\* returned only if the echo and a token are in the text decoded from the
\* response as it stands then.
C19_ReadsUpToSeparator ==
    /\ sip_response = C19_Sent(sip_reads)
    /\ sip_reads <= C19_LastRead
    /\ sip_pc = "recv" => ~Contains(sip_response, Separator)
    /\ (sip_pc = "parse" \/ C18_Parsed) =>
           /\ sip_reads = C19_LastRead
           /\ \/ Contains(sip_response, Separator)
              \/ sip_reads = Len(sip_peer.chunks) /\ sip_peer.end = "close"
           /\ sip_response = ReadLoop(<<>>, sip_peer.chunks, sip_peer.end).response
    /\ sip_ret # <<>> =>
           /\ C18_Parsed
           /\ Contains(decode(C19_Sent(C19_LastRead)), C18_Echo)
           /\ C5_HasToken(decode(C19_Sent(C19_LastRead)))

\* The call has returned without a result: the first recv completed the
\* separator and the echo and the token the peer had for a second recv
\* were never read
C19_Witness ==
    /\ C18_Parsed
    /\ sip_ret = <<>>
    /\ sip_reads = 1
    /\ Len(sip_peer.chunks) = 2
    /\ Contains(sip_response, Separator)
    /\ Contains(sip_peer.chunks[2], C18_Echo)
    /\ C5_HasToken(sip_peer.chunks[2])

----------------------------------------------------------------------------
(* The claims about both stages (checked under SpecStages, where either    *)
(* the probe stage or the latency-test stage runs)                         *)

\* The units of work inside the with lock block, given their positions
C12_InCritical(pcs) == {i \in 1..Len(pcs) : pcs[i] \in {"locked", "counting"}}

\* The counter of one stage: at most one unit is inside the with block and
\* it holds the lock; count is the number of units that have left the block;
\* the printed values are 1, 2, .., count
C12_Counter(pcs, count, lock, progress) ==
    /\ Cardinality(C12_InCritical(pcs)) <= 1
    /\ \A i \in C12_InCritical(pcs) : lock = i
    /\ (C12_InCritical(pcs) = {}) => lock = 0
    /\ count = Cardinality({i \in 1..Len(pcs) : pcs[i] = "done"})
    /\ progress = [k \in 1..count |-> k]

C12_ScanPcs == [i \in 1..Len(scan_w) |-> scan_w[i].pc]

\* C12: in both stages and under every interleaving, each unit of work,
\* with or without a result, adds one to the shared counter exactly once,
\* inside the lock, which at most one unit holds; the printed completed
\* values are 1, 2, .. without a gap or a repeat; and once the pool has
\* drained the counter equals the total.
C12_CounterExact ==
    /\ C12_Counter(test_pc, test_count, test_lock, test_progress)
    /\ Len(test_pc) = test_total
    /\ test_main \notin {"idle", "pool"} => test_count = test_total
    /\ C12_Counter(C12_ScanPcs, scan_count, scan_lock, scan_progress)
    /\ main_pc = "pool" => Len(scan_w) = scan_total
    /\ main_pc # "pool" => scan_count = Len(scan_w)

\* The latency-test stage has drained a pool of two addresses, one with a
\* result and one without: the counter is 2 and 1 and 2 were printed
C12_Witness ==
    /\ test_main = "sorted"
    /\ test_total = 2
    /\ test_threads = 2
    /\ Len(test_results) = 1
    /\ test_count = 2
    /\ test_progress = <<1, 2>>

\* The return values of the first n addresses, in submission order
RECURSIVE C14_TestReturned(_)
C14_TestReturned(n) ==
    IF n = 0 THEN <<>> ELSE C14_TestReturned(n - 1) \o test_ret[n]

\* C14: in both stages, while the pool runs the result list is the
\* unsorted return values of the consumed futures and nothing has been
\* checked, written or aggregated; once the main thread is past the pool
\* (zero-result check, sort, result persistence, aggregation) every unit of
\* work submitted has completed and every future has been consumed.
C14_AfterDrainOnly ==
    /\ test_main = "pool" =>
           /\ test_results = C14_TestReturned(test_collected)
           /\ test_file = <<>>
           /\ test_hist = NoHist
    /\ test_main \notin {"idle", "pool"} =>
           /\ \A i \in 1..test_total : test_pc[i] = "done"
           /\ test_collected = test_total
    /\ main_pc = "pool" =>
           /\ scan_results = C11_Returned(scan_collected)
           /\ ~csv_opened
           /\ "no_valid_ip" \notin printed
    /\ main_pc \notin {"idle", "pool"} =>
           /\ \A i \in 1..Len(scan_w) : scan_w[i].pc = "done"
           /\ scan_w # <<>> => scan_collected = scan_total

\* The probe stage is past its sort with two candidates probed by two
\* threads, both finished and both in the list
C14_Witness ==
    /\ main_pc = "write_csv"
    /\ scan_threads = 2
    /\ Len(scan_w) = 2
    /\ Len(scan_results) = 2
    /\ scan_w[1].pc = "done" /\ scan_w[2].pc = "done"

----------------------------------------------------------------------------
(* Specifications *)

SpecSamplerInit == SamplerInit /\ AggIdle /\ TipIdle /\ TestIdle /\ ScanIdle /\ SipIdle
SpecSamplerNext == get_random_ipv4s
SpecSampler == SpecSamplerInit /\ [][SpecSamplerNext]_vars

SpecAggInit == AggInit /\ SamplerIdle /\ TipIdle /\ TestIdle /\ ScanIdle /\ SipIdle
SpecAggNext == AnalyzeCall
SpecAgg == SpecAggInit /\ [][SpecAggNext]_vars

SpecTestIpInit == TipInit /\ SamplerIdle /\ AggIdle /\ TestIdle /\ ScanIdle /\ SipIdle
SpecTestIpNext == TipTrial \/ TipReturn
SpecTestIp == SpecTestIpInit /\ [][SpecTestIpNext]_vars

SpecTestInit == TestInit /\ SamplerIdle /\ AggIdle /\ TipIdle /\ ScanIdle /\ SipIdle
SpecTest == SpecTestInit /\ [][SpecTestNext]_vars

SpecScanInit == ScanInit /\ SamplerIdle /\ AggIdle /\ TipIdle /\ TestIdle /\ SipIdle
SpecScan == SpecScanInit /\ [][SpecScanNext]_vars

SpecScanIpInit == SipInit /\ SamplerIdle /\ AggIdle /\ TipIdle /\ TestIdle /\ ScanIdle
SpecScanIp == SpecScanIpInit /\ [][SpecScanIpNext]_vars

\* Either stage on its own: what holds here holds in both stages
SpecStagesInit == SpecTestInit \/ SpecScanInit
SpecStagesNext == SpecTestNext \/ SpecScanNext
SpecStages == SpecStagesInit /\ [][SpecStagesNext]_vars

====
